---- MODULE Spec2Model ----
(***************************************************************************)
(* Inbox Pilot API (apps/api/main.py, apps/api/models.py): the ticket,     *)
(* message and audit-log tables, the request handlers that change them,    *)
(* and bearer-token verification.  A handler is split into steps at its    *)
(* db.commit() calls, the points where another request (FastAPI runs sync  *)
(* handlers on a thread pool) can see or change the stored rows.           *)
(* GET /healthz and GET /tickets read only and write nothing the other     *)
(* handlers read; they are left out.  The storage (db.py, the database) is *)
(* modelled by what the handlers rely on: committed rows, server-assigned  *)
(* ids and created_at, and a timestamptz column for due_at.                *)
(***************************************************************************)
EXTENDS Integers, Sequences, FiniteSets, TLC

VARIABLES tickets, messages, audit_logs, req, resp, resp_body, clock, nreq

vars == <<tickets, messages, audit_logs, req, resp, resp_body, clock, nreq>>

(* ----------------------------- bounds --------------------------------- *)
\* requests started in one behaviour
MaxRequests == 3
\* tickets created in one behaviour
MaxTickets == 1
\* fields one PATCH payload provides
MaxProvided == 2

\* handler threads that can be in flight at the same time
Workers == {"w1", "w2"}

(* ------------------------- constants / validation --------------------- *)
None == "None"

ALLOWED_PRIORITY == {"low", "medium", "high"}
ALLOWED_CATEGORY == {"billing", "login", "refund", "other"}
ALLOWED_STATUS == {"open", "closed"}
ALLOWED_SENDER == {"customer", "agent", "system"}

(* --------------------------- date values ------------------------------ *)
\* A text is what a client sends or reads for due_at; a datetime is the
\* Python value.  wall is the wall-clock reading (hours), tz the offset.
NoDue == [kind |-> "None", wall |-> 0, tz |-> ""]
Text(w, z) == [kind |-> "text", wall |-> w, tz |-> z]
DateTime(w, z) == [kind |-> "datetime", wall |-> w, tz |-> z]
BlankText == [kind |-> "blank", wall |-> 0, tz |-> ""]
GarbageText == [kind |-> "garbage", wall |-> 0, tz |-> ""]

\* hours east of UTC of an aware datetime
UtcOffset(z) == IF z = "+01:00" THEN 1 ELSE 0

\* payload.due_at.replace("Z", "+00:00")
ReplaceZ(s) == IF s.kind = "text" /\ s.tz = "Z" THEN Text(s.wall, "+00:00") ELSE s

\* datetime.fromisoformat: a text without offset parses to a naive datetime
fromisoformat(s) == DateTime(s.wall, IF s.tz = "" THEN "naive" ELSE s.tz)

\* datetime.isoformat(): the offset is printed as the datetime carries it
isoformat(d) == Text(d.wall, IF d.tz = "naive" THEN "" ELSE d.tz)

\* t.due_at.isoformat() if t.due_at else None
IsoOrNone(d) == IF d = NoDue THEN NoDue ELSE isoformat(d)

\* A DateTime(timezone=True) column keeps the instant: the value read back
\* is aware and in UTC, whatever offset (or none) the written value had.
ToTimestampTz(d) ==
  IF d = NoDue THEN NoDue
  ELSE DateTime(d.wall - (IF d.tz = "naive" THEN 0 ELSE UtcOffset(d.tz)), "+00:00")

\* Python's == on two aware datetimes compares instants
SameDue(a, b) ==
  IF a = NoDue \/ b = NoDue THEN a = b
  ELSE IF a.tz = "naive" \/ b.tz = "naive" THEN a = b
  ELSE a.wall - UtcOffset(a.tz) = b.wall - UtcOffset(b.tz)

(* ------------------------------ inputs -------------------------------- *)
\* str.strip() on the texts the requests carry
Strip(s) ==
  CASE s = " sam " -> "sam"
    [] s = "  " -> ""
    [] s = " Payment failed " -> "Payment failed"
    [] s = " hello " -> "hello"
    [] OTHER -> s

StatusIn == {None, "closed", "pending"}
PriorityIn == {None, "high", "urgent"}
CategoryIn == {None, "spam"}
AssigneeIn == {None, "", " sam "}
DueIn == {NoDue, BlankText, GarbageText, Text(10, "+01:00"), Text(10, "Z")}

Provided(p) ==
  {f \in {"status", "priority", "category", "assignee"} : p[f] # None}
    \cup (IF p.due_at # NoDue THEN {"due_at"} ELSE {})

TicketUpdate ==
  {p \in [status : StatusIn, priority : PriorityIn, category : CategoryIn,
          assignee : AssigneeIn, due_at : DueIn] :
     Cardinality(Provided(p)) <= MaxProvided}

TicketCreate ==
  [subject : {" Payment failed "}, priority : {"medium", "urgent"},
   category : {"other", "spam"}]

MessageCreate == [body : {" hello "}, sender_type : {"customer", "bot"}]

\* decoded token payloads
Users == {[email |-> "sam@x.io", sub |-> "u1"]}

(* ---------------------- bearer-token verification -------------------- *)
\* A token is described by what each verification call does on it:
\* header: what jwt.get_unverified_header finds; key: what the JWKS client
\* finds for its kid; decode: what jwt.decode finds; claims: its payload.
Token(h, k, d, u) == [header |-> h, key |-> k, decode |-> d, claims |-> u]
NoToken == Token("", "", "", [email |-> None, sub |-> None])

GoodTokens == {Token("ok", "found", "ok", u) : u \in Users}
BadTokens ==
  LET u == [email |-> "sam@x.io", sub |-> "u1"]
  IN {Token("undecodable", "found", "ok", u), Token("noalg", "found", "ok", u),
      Token("ok", "notfound", "ok", u), Token("ok", "fetchfailed", "ok", u),
      Token("ok", "found", "badsig", u), Token("ok", "found", "badiss", u),
      Token("ok", "found", "expired", u)}

\* the Authorization header: absent, or a scheme and what follows it
Authorizations ==
  {[scheme |-> "absent", token |-> NoToken], [scheme |-> "Basic", token |-> NoToken],
   [scheme |-> "Bearer", token |-> NoToken]}
    \cup {[scheme |-> "Bearer", token |-> t] : t \in GoodTokens \cup BadTokens}

Unauthorized(detail) == [code |-> 401, detail |-> detail, user |-> NoToken.claims]

\* the exception the try block of _verify_supabase_jwt ends with
Raised(token) ==
  IF token.header = "undecodable" THEN "DecodeError"
  ELSE IF token.header = "noalg" THEN "HTTPException"
  ELSE IF token.key = "notfound" THEN "PyJWKClientError"
  ELSE IF token.key = "fetchfailed" THEN "PyJWKClientConnectionError"
  ELSE IF token.decode = "badsig" THEN "InvalidSignatureError"
  ELSE IF token.decode = "expired" THEN "ExpiredSignatureError"
  ELSE IF token.decode = "badiss" THEN "InvalidIssuerError"
  ELSE "none"

\* a verifier without the final except clause: what the try block raises,
\* other than the two exceptions named, leaves the handler as a server error
verify_without_catch_all(token) ==
  LET e == Raised(token)
  IN CASE e = "none" -> [code |-> 200, detail |-> <<>>, user |-> token.claims]
       [] e = "ExpiredSignatureError" -> Unauthorized(<<"Auth token expired">>)
       [] e = "HTTPException" -> Unauthorized(<<"Invalid auth token (missing alg)">>)
       [] OTHER -> [code |-> 500, detail |-> <<"Internal Server Error">>,
                    user |-> NoToken.claims]

_verify_supabase_jwt(token) ==
  LET e == Raised(token)
  IN CASE e = "none" -> [code |-> 200, detail |-> <<>>, user |-> token.claims]
       [] e = "ExpiredSignatureError" -> Unauthorized(<<"Auth token expired">>)
       [] e = "HTTPException" -> Unauthorized(<<"Invalid auth token (missing alg)">>)
       [] OTHER -> Unauthorized(<<"Invalid auth token: ", e>>)

get_current_user(authorization) ==
  IF authorization.scheme = "absent"
  THEN Unauthorized(<<"Missing Authorization header">>)
  ELSE IF authorization.scheme # "Bearer"
  THEN Unauthorized(<<"Bad Authorization format (expected Bearer token)">>)
  ELSE IF authorization.token = NoToken
  THEN Unauthorized(<<"Missing token after Bearer">>)
  ELSE _verify_supabase_jwt(authorization.token)

actor_from_user(user) ==
  IF user.email # None THEN <<"agent:", user.email>>
  ELSE <<"agent:", IF user.sub # None THEN user.sub ELSE "unknown">>

(* ------------------------------ DB helpers ---------------------------- *)
TrackedFields == {"status", "priority", "category", "assignee", "due_at"}

Idle == [op |-> "idle", pc |-> "idle"]

\* a session that is committed when it closes: what the handler assigned
\* to the loaded row before it raised reaches the table
CloseSessionCommitting(rows, tid, t) ==
  [rows EXCEPT ![tid] = [f \in DOMAIN @ |-> t[f]]]

\* get_db's finally: db.close() discards what the session has not committed
CloseSession(rows, tid, t) == rows

ticket_to_out(t) ==
  [id |-> t.id, subject |-> t.subject, status |-> t.status,
   priority |-> t.priority, category |-> t.category, assignee |-> t.assignee,
   due_at |-> IsoOrNone(t.due_at), created_at |-> t.created_at]

message_to_out(m) ==
  [id |-> m.id, ticket_id |-> m.ticket_id, sender_type |-> m.sender_type,
   body |-> m.body, created_at |-> m.created_at]

audit_to_out(a) ==
  [id |-> a.id, ticket_id |-> a.ticket_id, actor |-> a.actor,
   action |-> a.action, meta_json |-> a.meta_json, created_at |-> a.created_at]

\* json.dumps(meta): the text of the dict
json_dumps(meta) == [json |-> meta]
json_loads(text) == text.json

\* log_event: the row db.add() puts in the session; id and created_at are
\* the storage's (the next id, and func.now() as read when the INSERT runs)
log_event(ticket_id, actor, action, meta, now) ==
  [id |-> Len(audit_logs) + 1, ticket_id |-> ticket_id, actor |-> actor,
   action |-> action, meta_json |-> json_dumps(meta), created_at |-> now]

\* the value a column keeps of what the session wrote
ToColumn(f, v) == IF f = "due_at" THEN ToTimestampTz(v) ELSE v

\* an UPDATE that sets every tracked column from the session's copy of the
\* row, assigned or not
FlushWholeRow(row, t, dirty) ==
  [f \in DOMAIN row |-> IF f \in TrackedFields THEN ToColumn(f, t[f]) ELSE row[f]]

\* db.commit() of a loaded row: the UPDATE sets the attributes the session
\* assigned, on the row as it is stored now
FlushUpdate(row, t, dirty) ==
  [f \in DOMAIN row |-> IF f \in dirty THEN ToColumn(f, t[f]) ELSE row[f]]

\* the rows of one ticket, in table order
OfTicket(rows, tid) == LET Mine(r) == r.ticket_id = tid IN SelectSeq(rows, Mine)

\* ORDER BY created_at: every order of the rows the sort key allows
OrderBy(rows, descending) ==
  LET n == Len(rows)
      InOrder(a, b) == IF descending THEN a.created_at >= b.created_at
                       ELSE a.created_at <= b.created_at
      perms == {q \in [1..n -> 1..n] :
                  /\ \A i, j \in 1..n : i # j => q[i] # q[j]
                  /\ \A i \in 1..(n - 1) : InOrder(rows[q[i]], rows[q[i + 1]])}
  IN {[i \in 1..n |-> rows[q[i]]] : q \in perms}

Limit(s, n) == SubSeq(s, 1, IF n < Len(s) THEN n ELSE Len(s))

(* --------------------- update_ticket: validate and diff --------------- *)
\* The state of the handler between its field blocks: the loaded row t as
\* the session holds it, changed_fields, and the 400 detail once raised.
\* A block runs only if no earlier block raised.
Change(s, f, from, to, value) ==
  [s EXCEPT !.changed = (f :> [from |-> from, to |-> to]) @@ @, !.t[f] = value]

Reject(s, detail) == [s EXCEPT !.err = detail]

EnumBlock(s, f, proposed, allowed, detail) ==
  IF s.err # <<>> \/ proposed = None THEN s
  ELSE IF proposed \notin allowed THEN Reject(s, detail)
  ELSE IF proposed # s.t[f] THEN Change(s, f, s.t[f], proposed, proposed)
  ELSE s

AssigneeBlock(s, proposed) ==
  IF s.err # <<>> \/ proposed = None THEN s
  ELSE LET cleaned == Strip(proposed)
           new_assignee == IF cleaned # "" THEN cleaned ELSE None
       IN IF new_assignee # s.t.assignee
          THEN Change(s, "assignee", s.t.assignee, new_assignee, new_assignee)
          ELSE s

DueBlock(s, proposed) ==
  IF s.err # <<>> \/ proposed = NoDue THEN s
  ELSE IF proposed.kind = "garbage"
  THEN Reject(s, <<"due_at must be ISO format like 2026-01-20T10:00:00+00:00 (or empty string to clear)">>)
  ELSE LET new_due == IF proposed.kind = "blank" THEN NoDue
                      ELSE fromisoformat(ReplaceZ(proposed))
           old_due == IsoOrNone(s.t.due_at)
           new_due_str == IsoOrNone(new_due)
       IN IF new_due_str # old_due
          THEN Change(s, "due_at", old_due, new_due_str, new_due)
          ELSE s

\* lines 348-393 on the row db.get returned
Diff(row, payload) ==
  LET s0 == [t |-> row, changed |-> <<>>, err |-> <<>>]
      s1 == EnumBlock(s0, "status", payload.status, ALLOWED_STATUS,
                      <<"Invalid status. Use open or closed.">>)
      s2 == EnumBlock(s1, "priority", payload.priority, ALLOWED_PRIORITY,
                      <<"Invalid priority. Use low, medium, or high.">>)
      s3 == EnumBlock(s2, "category", payload.category, ALLOWED_CATEGORY,
                      <<"Invalid category. Use billing, login, refund, or other.">>)
      s4 == AssigneeBlock(s3, payload.assignee)
  IN DueBlock(s4, payload.due_at)

\* the before dict of update_ticket
Before(t) ==
  [status |-> t.status, priority |-> t.priority, category |-> t.category,
   assignee |-> t.assignee, due_at |-> IsoOrNone(t.due_at)]

(* ------------------------------ requests ------------------------------ *)
\* A worker takes a request: it is idle and the behaviour has requests left.
\* The pool's threads are alike; the request goes to the first idle one.
Accept(w) ==
  /\ req[w].pc = "idle"
  /\ w = "w2" => req["w1"].pc # "idle"
  /\ nreq < MaxRequests
  /\ nreq' = nreq + 1

\* The response leaves; the next request starts at a later clock reading
Respond(op, code, detail, body) ==
  /\ resp' = [op |-> op, code |-> code, detail |-> detail]
  /\ resp_body' = body
  /\ clock' = clock + 1

Exists(tid) == tid \in 1..Len(tickets)

\* the ids a request path can carry: the tickets and one that does not exist
TicketIds == 1..(Len(tickets) + 1)

\* Depends(get_current_user) raised: the handler does not run
Rejected(w, authorization) ==
  /\ Accept(w)
  /\ get_current_user(authorization).code # 200
  /\ Respond("auth", get_current_user(authorization).code,
             get_current_user(authorization).detail, <<>>)
  /\ UNCHANGED <<tickets, messages, audit_logs, req>>

\* the users Depends(get_current_user) hands to a handler
Authenticated ==
  {get_current_user(a).user : a \in {b \in Authorizations : get_current_user(b).code = 200}}

\* the requests between their first storage step and their response
InFlight == {w \in Workers : req[w].pc # "idle"}

\* now() is read off a clock of finite resolution: since the last statement
\* of a request that overlaps this one it may or may not have moved
Now == IF InFlight # {} THEN {clock, clock + 1} ELSE {clock}

\* The clock readings the audit INSERT of w can get: the storage reads
\* now() when the statement runs, at some moment after the first commit
\* returned and before the second one does
InsertTimes(w) == req[w].now..clock

(* POST /tickets, to the first commit and the refresh *)
create_ticket(w, user, payload) ==
  /\ Accept(w)
  /\ IF payload.priority \notin ALLOWED_PRIORITY
     THEN /\ Respond("create_ticket", 400, <<"Invalid priority. Use low, medium, or high.">>, <<>>)
          /\ UNCHANGED <<tickets, messages, audit_logs, req>>
     ELSE IF payload.category \notin ALLOWED_CATEGORY
     THEN /\ Respond("create_ticket", 400, <<"Invalid category. Use billing, login, refund, or other.">>, <<>>)
          /\ UNCHANGED <<tickets, messages, audit_logs, req>>
     ELSE /\ Len(tickets) < MaxTickets
          /\ LET ticket == [id |-> Len(tickets) + 1, subject |-> Strip(payload.subject),
                            status |-> "open", priority |-> payload.priority,
                            category |-> payload.category, assignee |-> None,
                            due_at |-> NoDue, created_at |-> clock]
             IN /\ tickets' = Append(tickets, ticket)
                /\ req' = [req EXCEPT ![w] =
                             [op |-> "create_ticket", pc |-> "created", tid |-> ticket.id,
                              actor |-> actor_from_user(user),
                              t |-> ticket, now |-> clock]]
          /\ UNCHANGED <<messages, audit_logs, resp, resp_body, clock>>

(* POST /tickets, the audit row, the second commit and the response *)
create_ticket_audit(w) ==
  /\ req[w].pc = "created"
  /\ \E now \in InsertTimes(w) :
       audit_logs' = Append(audit_logs,
         log_event(req[w].tid, req[w].actor, "ticket.created",
                   [subject |-> req[w].t.subject, priority |-> req[w].t.priority,
                    category |-> req[w].t.category], now))
  /\ Respond("create_ticket", 200, <<>>, ticket_to_out(tickets[req[w].tid]))
  /\ req' = [req EXCEPT ![w] = Idle]
  /\ UNCHANGED <<tickets, messages, nreq>>

(* GET /tickets/{ticket_id} *)
get_ticket(w, user, ticket_id) ==
  /\ Accept(w)
  /\ IF ~Exists(ticket_id)
     THEN Respond("get_ticket", 404, <<"Ticket not found">>, <<>>)
     ELSE Respond("get_ticket", 200, <<>>, ticket_to_out(tickets[ticket_id]))
  /\ UNCHANGED <<tickets, messages, audit_logs, req>>

(* PATCH /tickets/{ticket_id}, from db.get to the return or the raise *)
update_ticket(w, user, ticket_id, payload) ==
  /\ Accept(w)
  /\ IF ~Exists(ticket_id)
     THEN /\ Respond("update_ticket", 404, <<"Ticket not found">>, <<>>)
          /\ UNCHANGED <<tickets, req>>
     ELSE LET d == Diff(tickets[ticket_id], payload)
          IN IF d.err # <<>>
             THEN /\ Respond("update_ticket", 400, d.err, <<>>)
                  /\ tickets' = CloseSession(tickets, ticket_id, d.t)
                  /\ UNCHANGED req
             ELSE IF DOMAIN d.changed = {}
             THEN /\ Respond("update_ticket", 200, <<>>, ticket_to_out(d.t))
                  /\ tickets' = CloseSession(tickets, ticket_id, d.t)
                  /\ UNCHANGED req
             ELSE /\ req' = [req EXCEPT ![w] =
                               [op |-> "update_ticket", pc |-> "diffed", tid |-> ticket_id,
                                actor |-> actor_from_user(user),
                                t |-> d.t, changed_fields |-> d.changed,
                                before |-> Before(tickets[ticket_id]),
                                now |-> clock]]
                  /\ UNCHANGED <<tickets, resp, resp_body, clock>>
  /\ UNCHANGED <<messages, audit_logs>>

(* PATCH, the first db.commit() and db.refresh(t) *)
update_ticket_commit(w) ==
  /\ req[w].pc = "diffed"
  /\ tickets' = [tickets EXCEPT ![req[w].tid] =
                   FlushUpdate(@, req[w].t, DOMAIN req[w].changed_fields)]
  /\ req' = [req EXCEPT ![w].pc = "committed", ![w].t = tickets'[req[w].tid],
                         ![w].now = clock]
  /\ UNCHANGED <<messages, audit_logs, resp, resp_body, clock, nreq>>

(* PATCH, log_event, the second db.commit() and the response *)
update_ticket_audit(w) ==
  /\ req[w].pc = "committed"
  /\ \E now \in InsertTimes(w) :
       audit_logs' = Append(audit_logs,
         log_event(req[w].tid, req[w].actor, "ticket.updated",
                   [changed |-> req[w].changed_fields, before |-> req[w].before], now))
  /\ Respond("update_ticket", 200, <<>>, ticket_to_out(tickets[req[w].tid]))
  /\ req' = [req EXCEPT ![w] = Idle]
  /\ UNCHANGED <<tickets, messages, nreq>>

(* POST /tickets/{ticket_id}/messages, to the first commit and the refresh *)
add_message(w, user, ticket_id, payload) ==
  /\ Accept(w)
  /\ IF ~Exists(ticket_id)
     THEN /\ Respond("add_message", 404, <<"Ticket not found">>, <<>>)
          /\ UNCHANGED <<messages, req>>
     ELSE IF payload.sender_type \notin ALLOWED_SENDER
     THEN /\ Respond("add_message", 400, <<"sender_type must be customer, agent, or system">>, <<>>)
          /\ UNCHANGED <<messages, req>>
     ELSE \E now \in Now :
            LET m == [id |-> Len(messages) + 1, ticket_id |-> ticket_id,
                      sender_type |-> payload.sender_type, body |-> Strip(payload.body),
                      created_at |-> now]
            IN /\ messages' = Append(messages, m)
               /\ req' = [req EXCEPT ![w] =
                            [op |-> "add_message", pc |-> "added", tid |-> ticket_id,
                             actor |-> actor_from_user(user),
                             m |-> m, now |-> now]]
               /\ clock' = now
               /\ UNCHANGED <<resp, resp_body>>
  /\ UNCHANGED <<tickets, audit_logs>>

\* m.body[:80]; every body of MessageCreate is shorter
Preview(body) == body

(* POST messages, log_event, the second db.commit() and the response *)
add_message_audit(w) ==
  /\ req[w].pc = "added"
  /\ \E now \in InsertTimes(w) :
       audit_logs' = Append(audit_logs,
         log_event(req[w].tid, req[w].actor, "message.added",
                   [sender_type |-> req[w].m.sender_type,
                    body_preview |-> Preview(req[w].m.body)], now))
  /\ Respond("add_message", 200, <<>>, message_to_out(messages[req[w].m.id]))
  /\ req' = [req EXCEPT ![w] = Idle]
  /\ UNCHANGED <<tickets, messages, nreq>>

(* GET /tickets/{ticket_id}/messages *)
list_messages(w, user, ticket_id) ==
  /\ Accept(w)
  /\ IF ~Exists(ticket_id)
     THEN Respond("list_messages", 404, <<"Ticket not found">>, <<>>)
     ELSE \E rows \in OrderBy(OfTicket(messages, ticket_id), FALSE) :
            Respond("list_messages", 200, <<>>,
                    [i \in 1..Len(rows) |-> message_to_out(rows[i])])
  /\ UNCHANGED <<tickets, messages, audit_logs, req>>

\* the limits a request carries: below the range, the smallest, the default
LimitIn == {0, 1, 100}

(* GET /tickets/{ticket_id}/audit *)
list_audit_logs(w, user, ticket_id, limit) ==
  /\ Accept(w)
  /\ IF ~Exists(ticket_id)
     THEN Respond("list_audit_logs", 404, <<"Ticket not found">>, <<>>)
     ELSE IF limit < 1 \/ limit > 500
     THEN Respond("list_audit_logs", 400, <<"limit must be between 1 and 500">>, <<>>)
     ELSE \E rows \in OrderBy(OfTicket(audit_logs, ticket_id), TRUE) :
            Respond("list_audit_logs", 200, <<>>,
                    [i \in 1..Len(Limit(rows, limit)) |-> audit_to_out(rows[i])])
  /\ UNCHANGED <<tickets, messages, audit_logs, req>>

(* A storage fault (or the process dying) in a handler that has work left: *)
(* the call raises, nothing the session has not committed is kept, and the *)
(* client gets a server error                                              *)
StorageFault(w) ==
  /\ req[w].pc # "idle"
  /\ Respond(req[w].op, 500, <<"Internal Server Error">>, <<>>)
  /\ req' = [req EXCEPT ![w] = Idle]
  /\ UNCHANGED <<tickets, messages, audit_logs, nreq>>

(* --------------------------- specifications --------------------------- *)
Init ==
  /\ tickets = <<>>
  /\ messages = <<>>
  /\ audit_logs = <<>>
  /\ req = [w \in Workers |-> Idle]
  /\ resp = [op |-> "none", code |-> 0, detail |-> <<>>]
  /\ resp_body = <<>>
  /\ clock = 0
  /\ nreq = 0

Handle(w) ==
  \/ \E a \in Authorizations : Rejected(w, a)
  \/ \E u \in Authenticated, p \in TicketCreate : create_ticket(w, u, p)
  \/ create_ticket_audit(w)
  \/ \E u \in Authenticated, tid \in TicketIds : get_ticket(w, u, tid)
  \/ \E u \in Authenticated, tid \in TicketIds, p \in TicketUpdate :
       update_ticket(w, u, tid, p)
  \/ update_ticket_commit(w)
  \/ update_ticket_audit(w)
  \/ \E u \in Authenticated, tid \in TicketIds, p \in MessageCreate :
       add_message(w, u, tid, p)
  \/ add_message_audit(w)
  \/ \E u \in Authenticated, tid \in TicketIds : list_messages(w, u, tid)
  \/ \E u \in Authenticated, tid \in TicketIds, n \in LimitIn :
       list_audit_logs(w, u, tid, n)


\* requests on the thread pool, with storage faults
Next == \E w \in Workers : Handle(w) \/ StorageFault(w)

Spec == Init /\ [][Next]_vars

\* one request at a time, each running to its response
SeqNext == Handle("w1")

SeqSpec == Init /\ [][SeqNext]_vars

(* ============================== claims =============================== *)
Quiescent == \A w \in Workers : req[w].pc = "idle"

ActionsOf(tid, action) ==
  LET Is(a) == a.ticket_id = tid /\ a.action = action IN SelectSeq(audit_logs, Is)

\* the tracked fields as the ticket had them when it was created
AsCreated(t) ==
  /\ t.status = "open"
  /\ t.assignee = None
  /\ t.due_at = NoDue
  /\ \A i \in 1..Len(ActionsOf(t.id, "ticket.created")) :
       LET meta == json_loads(ActionsOf(t.id, "ticket.created")[i].meta_json)
       IN t.priority = meta.priority /\ t.category = meta.category

(* C1: a mutation and its audit entry are stored together or not at all.   *)
(* Stated for the states in which no request is in flight (so for what is  *)
(* left after a request ended, by its response or by a fault): every       *)
(* stored ticket has its ticket.created entry, every stored message its    *)
(* message.added entry, and a ticket whose tracked fields are not as       *)
(* created has a ticket.updated entry.                                     *)
C1_MutationAndAuditAtomic ==
  Quiescent =>
    \A tid \in 1..Len(tickets) :
      /\ Len(ActionsOf(tid, "ticket.created")) = 1
      /\ Len(ActionsOf(tid, "message.added")) = Len(OfTicket(messages, tid))
      /\ ~AsCreated(tickets[tid]) => Len(ActionsOf(tid, "ticket.updated")) >= 1

(* C2: with requests served one after another and none failing, each step  *)
(* adds to a ticket's audit entries exactly one entry when it completes    *)
(* the ticket's creation, a message on it, or a PATCH on it that left at   *)
(* least one tracked field different from what it was before the request,  *)
(* and none otherwise (so the count is 1 + changing PATCHes + messages).   *)
C2_AuditCount ==
  [][\A tid \in 1..Len(tickets') :
       LET r == req["w1"]
           added == Len(OfTicket(audit_logs', tid)) - Len(OfTicket(audit_logs, tid))
           completes == r.pc # "idle" /\ req'["w1"].pc = "idle" /\ r.tid = tid
           counted ==
             /\ completes
             /\ \/ r.op \in {"create_ticket", "add_message"}
                \/ r.op = "update_ticket" /\ Before(tickets'[tid]) # r.before
       IN added = IF counted THEN 1 ELSE 0]_vars

\* a provided field whose normalized value is the ticket's current value
EqualsCurrent(row, p, f) ==
  CASE f = "assignee" ->
         row.assignee = (IF Strip(p.assignee) # "" THEN Strip(p.assignee) ELSE None)
    [] f = "due_at" ->
         /\ p.due_at.kind \in {"blank", "text"}
         /\ SameDue(IF p.due_at.kind = "blank" THEN NoDue
                    ELSE fromisoformat(ReplaceZ(p.due_at)), row.due_at)
    [] OTHER -> p[f] = row[f]

(* C3: a PATCH whose provided fields, normalized, all equal the ticket's   *)
(* current values ends in its first step with 200 and the unchanged        *)
(* ticket, stores nothing and leaves no work that would write an audit     *)
(* entry.                                                                  *)
C3_NoOpPatch ==
  [][\A u \in Authenticated, tid \in 1..Len(tickets), p \in TicketUpdate :
       (/\ update_ticket("w1", u, tid, p)
        /\ \A f \in Provided(p) : EqualsCurrent(tickets[tid], p, f))
       => /\ req'["w1"].pc = "idle"
          /\ tickets' = tickets /\ audit_logs' = audit_logs
          /\ resp'.code = 200 /\ resp_body' = ticket_to_out(tickets[tid])]_vars

InvalidEnum(p) ==
  \/ p.status \notin ALLOWED_STATUS \cup {None}
  \/ p.priority \notin ALLOWED_PRIORITY \cup {None}
  \/ p.category \notin ALLOWED_CATEGORY \cup {None}

(* C4: a PATCH on a ticket that carries an invalid status, priority or     *)
(* category, whatever else it carries, is answered 400 in its first step,  *)
(* leaves no work behind, and the stored tickets (what a fetch returns)    *)
(* and audit entries are exactly those before the request.                 *)
C4_InvalidEnumRejected ==
  [][\A u \in Authenticated, tid \in 1..Len(tickets), p \in TicketUpdate :
       (update_ticket("w1", u, tid, p) /\ InvalidEnum(p))
       => /\ resp'.op = "update_ticket" /\ resp'.code = 400
          /\ req'["w1"].pc = "idle"
          /\ tickets' = tickets /\ audit_logs' = audit_logs
          /\ ticket_to_out(tickets'[tid]) = ticket_to_out(tickets[tid])]_vars

\* a PATCH on a stored ticket was just answered 400 for its priority
C4_Witness ==
  /\ Len(tickets) >= 1
  /\ resp.op = "update_ticket" /\ resp.code = 400
  /\ resp.detail = <<"Invalid priority. Use low, medium, or high.">>

\* the stored row after a PATCH of payload p on row has run alone
Patched(row, p) == FlushUpdate(row, Diff(row, p).t, DOMAIN Diff(row, p).changed)

(* C5: for every stored ticket and every valid payload that changes a      *)
(* field, the same PATCH applied again right after finds an empty diff     *)
(* (so writes no second audit entry) and leaves the ticket as the first    *)
(* left it.                                                                *)
C5_PatchIdempotent ==
  \A tid \in 1..Len(tickets), p \in TicketUpdate :
    LET first == Diff(tickets[tid], p)
        second == Diff(Patched(tickets[tid], p), p)
    IN (first.err = <<>> /\ DOMAIN first.changed # {})
       => /\ DOMAIN second.changed = {}
          /\ Patched(Patched(tickets[tid], p), p) = Patched(tickets[tid], p)

\* the ways verification fails, read off the request alone
Failing(a) ==
  \/ a.scheme # "Bearer"
  \/ a.token = NoToken
  \/ a.token.header # "ok" \/ a.token.key # "found" \/ a.token.decode # "ok"

\* a well-formed token with a known key that is past its expiry
ExpiredCase(a) ==
  /\ a.scheme = "Bearer" /\ a.token # NoToken
  /\ a.token.header = "ok" /\ a.token.key = "found" /\ a.token.decode = "expired"

(* C7: every failing Authorization (absent, not Bearer, empty token, no    *)
(* alg, undecodable header, key not found, key fetch failed, bad           *)
(* signature, wrong issuer, expired) is refused, the request it comes      *)
(* with is answered 401 and changes nothing, and the detail of an expired  *)
(* token is the detail of no other failure.                                *)
C7_FailuresAre401 ==
  [][/\ \A a \in Authorizations : Failing(a) => get_current_user(a).code = 401
     /\ \A w \in Workers, a \in Authorizations :
          Rejected(w, a)
          => /\ Failing(a)
             /\ resp'.code = 401
             /\ ExpiredCase(a) =>
                  \A b \in Authorizations :
                    (Failing(b) /\ ~ExpiredCase(b))
                    => get_current_user(b).detail # resp'.detail]_vars

\* a request with an expired token was just answered
C7_Witness == resp.op = "auth" /\ resp.code = 401 /\ resp.detail = <<"Auth token expired">>

IsPrefix(a, b) == Len(a) <= Len(b) /\ SubSeq(b, 1, Len(a)) = a

Reverse(q) == [i \in 1..Len(q) |-> q[Len(q) + 1 - i]]

MessagesAsCreated(tid) ==
  LET rows == OfTicket(messages, tid)
  IN [i \in 1..Len(rows) |-> message_to_out(rows[i])]

AuditNewestFirst(tid, limit) ==
  LET rows == Limit(Reverse(OfTicket(audit_logs, tid)), limit)
  IN [i \in 1..Len(rows) |-> audit_to_out(rows[i])]

(* C8: a ticket's messages are listed all and in the order they were       *)
(* created, its audit entries newest first (up to the limit), no two       *)
(* audit entries of a ticket carry the same creation time, and no step     *)
(* changes or removes a stored message or audit entry.                     *)
C8_ListingOrder ==
  [][/\ \A w \in Workers, u \in Authenticated, tid \in 1..Len(tickets) :
          list_messages(w, u, tid) => resp_body' = MessagesAsCreated(tid)
     /\ \A w \in Workers, u \in Authenticated, tid \in 1..Len(tickets), n \in {1, 100} :
          list_audit_logs(w, u, tid, n) => resp_body' = AuditNewestFirst(tid, n)
     /\ \A i, j \in 1..Len(audit_logs') :
          (i # j /\ audit_logs'[i].ticket_id = audit_logs'[j].ticket_id)
          => audit_logs'[i].created_at # audit_logs'[j].created_at
     /\ IsPrefix(messages, messages')
     /\ IsPrefix(audit_logs, audit_logs')]_vars

\* w commits its PATCH after v committed one on the same ticket, and both
\* diffed against the same read
RacingCommit(w, v) ==
  /\ w # v
  /\ update_ticket_commit(w)
  /\ req[v].op = "update_ticket" /\ req[v].pc = "committed"
  /\ req[v].tid = req[w].tid
  /\ req[v].before = req[w].before

\* the audit entry a step has just appended
Appended == json_loads(audit_logs'[Len(audit_logs')].meta_json)

ToIsStored(f, to, row) ==
  IF f # "due_at" THEN to = row[f]
  ELSE IF to = NoDue \/ row.due_at = NoDue THEN to = row.due_at
  ELSE SameDue(fromisoformat(to), row.due_at)

(* C10: for a valid PATCH the changed map holds exactly the provided       *)
(* fields whose normalized value differs from the current one, each with   *)
(* from = the value before the request; the audit entry records that map,  *)
(* each to is the value stored after the request, and the fields outside   *)
(* the map keep their value.                                               *)
C10_ChangedMapExact ==
  [][/\ \A u \in Authenticated, tid \in 1..Len(tickets), p \in TicketUpdate :
          (update_ticket("w1", u, tid, p) /\ Diff(tickets[tid], p).err = <<>>)
          => LET changed == IF req'["w1"].pc = "diffed"
                            THEN req'["w1"].changed_fields ELSE <<>>
             IN /\ DOMAIN changed =
                     {f \in Provided(p) : ~EqualsCurrent(tickets[tid], p, f)}
                /\ \A f \in DOMAIN changed :
                     changed[f].from = Before(tickets[tid])[f]
     /\ update_ticket_audit("w1")
        => /\ Appended.changed = req["w1"].changed_fields
           /\ \A f \in DOMAIN Appended.changed :
                ToIsStored(f, Appended.changed[f].to, tickets'[req["w1"].tid])
           /\ \A f \in TrackedFields \ DOMAIN Appended.changed :
                Before(tickets'[req["w1"].tid])[f] = req["w1"].before[f]]_vars

====
